---- MODULE Spec2Model ----
(***************************************************************************)
(* A model of cosign's attestation verification command                    *)
(*   cmd/cosign/cli/verify/verify_attestation.go                           *)
(*     VerifyAttestationCommand.Exec, reverseDSSEVerifier.VerifySignature  *)
(*   pkg/cosign/rego/rego.go                                               *)
(*     ValidateJSON                                                        *)
(*                                                                         *)
(* Three specifications share the module:                                  *)
(*   Spec      one run of Exec, stepped through its control flow           *)
(*   SpecRego  one call of rego.ValidateJSON                               *)
(*   SpecDSSE  two calls of reverseDSSEVerifier.VerifySignature            *)
(***************************************************************************)
EXTENDS Naturals, Sequences, FiniteSets, TLC

VARIABLES
    \* ---- Exec: the command's fields and arguments
    images,          \* images []string
    KeyRef,          \* c.KeyRef
    Sk,              \* c.Sk
    experimental,    \* options.EnableExperimental()
    PredicateType,   \* c.PredicateType
    Policies,        \* c.Policies (the state of the policy sources)
    cancelled,       \* ctx.Done() has fired
    \* ---- Exec: locals and position
    pc,              \* position in Exec
    i,               \* index of imageRef in images (1-based)
    verified,        \* verified []oci.Signature of the current image
    j,               \* index of vp in verified (1-based)
    result,          \* what Exec returned: "running", "nil", an error, "panic"
    pubKey,          \* "none", "key", "token"
    tokenHeld,       \* the piv token handle is open
    closeDeferred,   \* defer sk.Close() is registered
    \* ---- Exec: observations of the calls made
    clientOptsCalls, \* calls of c.ClientOpts
    keyCalls,        \* calls of sigs.PublicKeyFromKeyRef
    acquireCount,    \* successful pivkey.GetKeyWithSlot
    closeCount,      \* calls of sk.Close
    fetchCalls,      \* calls of cosign.VerifyAttestations
    fetchedAt,       \* the image indices VerifyAttestations was called for
    sigAfterClose,   \* signature checks made on a token verifier after sk.Close
    evalCancelled,   \* calls of cue.ValidateJSON started after ctx was cancelled
    sawAttestation,  \* some VerifyAttestations call returned a non-empty list
    unevaluated,     \* type-matching envelopes of the images reported so far
                     \* that no policy evaluation allowed
    reported,        \* image indices printed by PrintVerification, in order
    \* ---- Exec: the same for the image being processed (reset per image)
    decodeCount,     \* calls of base64.StdEncoding.DecodeString
    parseCount,      \* json.Unmarshal of a decoded payload into a statement
    evalCount,       \* calls of cue.ValidateJSON
    allowedCount,    \* those that returned nil
    lastEval,        \* the last policy evaluation: envelope, input, outcome
    skipped,         \* envelopes passed over by continue
    rejected,        \* attestations whose signature check failed
    \* ---- rego.ValidateJSON
    rpc, entrypoints, jsonBody, query, input, rs, rerr,
    \* ---- reverseDSSEVerifier.VerifySignature
    vpc, vkey, vmsg, vsigA, vsigB, vopts, voutA, voutB, wrappedArgs

execVars == <<images, KeyRef, Sk, experimental, PredicateType, Policies, cancelled,
              pc, i, verified, j, result, pubKey, tokenHeld, closeDeferred,
              clientOptsCalls, keyCalls, acquireCount, closeCount, fetchCalls,
              fetchedAt, sigAfterClose, evalCancelled, sawAttestation,
              unevaluated, reported, decodeCount, parseCount, evalCount,
              allowedCount, lastEval, skipped, rejected>>
regoVars == <<rpc, entrypoints, jsonBody, query, input, rs, rerr>>
dsseVars == <<vpc, vkey, vmsg, vsigA, vsigB, vopts, voutA, voutB, wrappedArgs>>
vars == <<execVars, regoVars, dsseVars>>

(***************************************************************************)
(* Bounds of the model.                                                    *)
(***************************************************************************)
MaxImages == 2
MaxAtts == 2

SeqsUpTo(S, n) == UNION {[1..k -> S] : k \in 0..n}

(***************************************************************************)
(* Data: predicate types, envelopes, statements.                           *)
(***************************************************************************)
PredicateCustom == "custom"
PredicateLink == "link"
PredicateSLSA == "slsaprovenance"
PredicateSPDX == "spdx"

\* The values c.PredicateType is run with: two of the four known tags (the
\* four cases of the switch differ only in the statement type) and one tag the
\* switch does not know.
PredicateTypes == {PredicateCustom, PredicateSPDX, "vuln"}

\* options.PredicateTypeMap[t]; a Go map yields "" for a key it does not hold.
PredicateTypeMap(t) ==
    CASE t = PredicateCustom -> "cosign.sigstore.dev/attestation/v1"
      [] t = PredicateLink -> "https://in-toto.io/Link/v1"
      [] t = PredicateSLSA -> "https://slsa.dev/provenance/v0.1"
      [] t = PredicateSPDX -> "https://spdx.dev/Document"
      [] OTHER -> ""

\* options.OneOf(c.KeyRef, c.Sk): exactly one argument is not its zero value.
OneOf(keyRef, sk) == (keyRef # "") # sk

\* name.ParseReference(imageRef) succeeds.
ParseReferenceOK(imageRef) == imageRef # "BAD REF"

ImageRefs == {"example.com/app:v1", "BAD REF"}

\* An attestation as the registry holds it. sigOK is the outcome of the
\* signature check on it; the other fields describe what vp.Payload() yields:
\*   payloadOK        vp.Payload() returns no error
\*   isJSON           the payload unmarshals into map[string]interface{}
\*   typeIsString,    payloadData["payloadType"] and whether it is a string
\*   payloadType
\*   payloadIsString  payloadData["payload"] is a string
\*   b64OK            that string is standard base64
\*   stmtOK           the decoded bytes unmarshal into an in-toto statement
\*   tag, subject,    the statement's predicateType, subject and Predicate
\*   predicate
Att(sig, pOK, js, tStr, pt, pStr, b64, st, tag, subj, pred) ==
    [sigOK |-> sig, payloadOK |-> pOK, isJSON |-> js, typeIsString |-> tStr,
     payloadType |-> pt, payloadIsString |-> pStr, b64OK |-> b64, stmtOK |-> st,
     tag |-> tag, subject |-> subj, predicate |-> pred]

InTotoPayloadType == "application/vnd.in-toto+json"

\* A statement predicateType that is none of the four known ones.
UnknownTag == "https://example.com/unknown/v1"

\* The attestations an image may carry when the run asks for predicate type t:
\* unreadable, not JSON, of another payloadType, without a payloadType; of the
\* requested payloadType with a payload that is no string, no base64, no
\* statement; a statement the policy allows, one it denies, and one it allows
\* that carries an unknown predicateType and another subject; and an
\* attestation whose signature does not verify.
Attestations(t) ==
    LET m == PredicateTypeMap(t) IN
    { Att(TRUE, FALSE, FALSE, FALSE, "", FALSE, FALSE, FALSE, "", "", ""),
      Att(TRUE, TRUE, FALSE, FALSE, "", FALSE, FALSE, FALSE, "", "", ""),
      Att(TRUE, TRUE, TRUE, TRUE, InTotoPayloadType, TRUE, TRUE, TRUE, m, "app", "foo"),
      Att(TRUE, TRUE, TRUE, FALSE, "", TRUE, FALSE, FALSE, "", "", ""),
      Att(TRUE, TRUE, TRUE, TRUE, m, FALSE, FALSE, FALSE, "", "", ""),
      Att(TRUE, TRUE, TRUE, TRUE, m, TRUE, FALSE, FALSE, "", "", ""),
      Att(TRUE, TRUE, TRUE, TRUE, m, TRUE, TRUE, FALSE, "", "", ""),
      Att(TRUE, TRUE, TRUE, TRUE, m, TRUE, TRUE, TRUE, m, "app", "foo"),
      Att(TRUE, TRUE, TRUE, TRUE, m, TRUE, TRUE, TRUE, m, "app", "bar"),
      Att(TRUE, TRUE, TRUE, TRUE, m, TRUE, TRUE, TRUE, UnknownTag, "lib", "foo"),
      Att(FALSE, TRUE, TRUE, TRUE, m, TRUE, TRUE, TRUE, m, "app", "foo") }

\* cosign.VerifyAttestations on the attestations atts of an image: those whose
\* signature check by co.SigVerifier passed, in order.
SigVerified(vp) == vp.sigOK
VerifyAttestations(atts) == SelectSeq(atts, SigVerified)

\* Line 137: the envelope is of the requested type.
TypeMatches(t, vp) == vp.typeIsString /\ vp.payloadType = PredicateTypeMap(t)

\* The switch of lines 146-185 has a case for t.
HasCase(t) == t \in {PredicateCustom, PredicateLink, PredicateSLSA, PredicateSPDX}

\* json.Marshal(statement.Predicate)
Marshal(predicate) ==
    CASE predicate = "foo" -> "{\"Data\":\"foo\"}"
      [] predicate = "bar" -> "{\"Data\":\"bar\"}"
      [] OTHER -> "null"

\* cue.ValidateJSON(payload, c.Policies): the policy sources are unreadable, or
\* they require Data == "foo".
PolicySources == {"data-is-foo.cue", "unreadable.cue"}
CueValidateJSON(payload, policies) ==
    IF policies = "unreadable.cue" THEN "PolicySourceError"
    ELSE IF payload = "{\"Data\":\"foo\"}" THEN "nil"
    ELSE "PolicyDenied"

(***************************************************************************)
(* One iteration of the loop over verified (lines 126-186), as the outcome *)
(* for envelope vp under requested type t and policy sources p:            *)
(*   kind     "error" (return err), "panic", "skip" (continue), "pass"     *)
(*   decoded, parsed, evaluated   whether DecodeString, the statement      *)
(*            Unmarshal and ValidateJSON were called                       *)
(*   evalIn, evalOut   the bytes handed to ValidateJSON and what it gave   *)
(***************************************************************************)
Outcome(kind, err, decoded, parsed, evaluated, evalIn, evalOut) ==
    [kind |-> kind, err |-> err, decoded |-> decoded, parsed |-> parsed,
     evaluated |-> evaluated, evalIn |-> evalIn, evalOut |-> evalOut]

\* Dispatch that goes on to the next envelope when ValidateJSON fails.
DispatchIgnoreErr(t, p, vp) ==
    IF ~HasCase(t) THEN Outcome("skip", "", TRUE, FALSE, FALSE, "", "")
    ELSE IF ~vp.stmtOK THEN Outcome("error", "StatementError", TRUE, TRUE, FALSE, "", "")
    ELSE LET payload == Marshal(vp.predicate)
         IN  Outcome("pass", "", TRUE, TRUE, TRUE, payload, CueValidateJSON(payload, p))

\* Dispatch that parses the statement first and switches on the predicateType
\* the statement carries.
DispatchOnTag(t, p, vp) ==
    IF ~vp.stmtOK THEN Outcome("error", "StatementError", TRUE, TRUE, FALSE, "", "")
    ELSE IF ~HasCase(t) \/ vp.tag # PredicateTypeMap(t)
         THEN Outcome("skip", "", TRUE, TRUE, FALSE, "", "")
    ELSE LET payload == Marshal(vp.predicate)
             err == CueValidateJSON(payload, p)
         IN  IF err # "nil" THEN Outcome("error", err, TRUE, TRUE, TRUE, payload, err)
             ELSE Outcome("pass", "", TRUE, TRUE, TRUE, payload, err)

\* Dispatch that hands the whole statement, subject and predicateType
\* included, to ValidateJSON.
DispatchWholeStatement(t, p, vp) ==
    IF ~HasCase(t) THEN Outcome("skip", "", TRUE, FALSE, FALSE, "", "")
    ELSE IF ~vp.stmtOK THEN Outcome("error", "StatementError", TRUE, TRUE, FALSE, "", "")
    ELSE LET payload == "{\"predicateType\":\"" \o vp.tag \o "\",\"subject\":\"" \o
                        vp.subject \o "\",\"predicate\":" \o Marshal(vp.predicate) \o "}"
             err == CueValidateJSON(payload, p)
         IN  IF err # "nil" THEN Outcome("error", err, TRUE, TRUE, TRUE, payload, err)
             ELSE Outcome("pass", "", TRUE, TRUE, TRUE, payload, err)

\* Lines 146-185: the switch on c.PredicateType over the decoded payload.
Dispatch(t, p, vp) ==
    IF ~HasCase(t) THEN Outcome("skip", "", TRUE, FALSE, FALSE, "", "")
    ELSE IF ~vp.stmtOK THEN Outcome("error", "StatementError", TRUE, TRUE, FALSE, "", "")
    ELSE LET payload == Marshal(vp.predicate)
             err == CueValidateJSON(payload, p)
         IN  IF err # "nil" THEN Outcome("error", err, TRUE, TRUE, TRUE, payload, err)
             ELSE Outcome("pass", "", TRUE, TRUE, TRUE, payload, err)

\* Envelope without the type filter of lines 137-139.
EnvelopeNoTypeFilter(t, p, vp) ==
    IF ~vp.payloadOK THEN Outcome("error", "PayloadError", FALSE, FALSE, FALSE, "", "")
    ELSE IF ~vp.isJSON THEN Outcome("error", "EnvelopeJSONError", FALSE, FALSE, FALSE, "", "")
    ELSE IF ~vp.payloadIsString THEN Outcome("panic", "", FALSE, FALSE, FALSE, "", "")
    ELSE IF ~vp.b64OK THEN Outcome("error", "Base64Error", TRUE, FALSE, FALSE, "", "")
    ELSE Dispatch(t, p, vp)

\* Lines 127-144: payload, envelope JSON, type filter, base64 decode.
Envelope(t, p, vp) ==
    IF ~vp.payloadOK THEN Outcome("error", "PayloadError", FALSE, FALSE, FALSE, "", "")
    ELSE IF ~vp.isJSON THEN Outcome("error", "EnvelopeJSONError", FALSE, FALSE, FALSE, "", "")
    ELSE IF ~TypeMatches(t, vp) THEN Outcome("skip", "", FALSE, FALSE, FALSE, "", "")
    ELSE IF ~vp.payloadIsString THEN Outcome("panic", "", FALSE, FALSE, FALSE, "", "")
    ELSE IF ~vp.b64OK THEN Outcome("error", "Base64Error", TRUE, FALSE, FALSE, "", "")
    ELSE Dispatch(t, p, vp)

B2N(b) == IF b THEN 1 ELSE 0

(***************************************************************************)
(* Exec.                                                                   *)
(***************************************************************************)
inputs == <<images, KeyRef, Sk, experimental, PredicateType, Policies>>
perImage == <<decodeCount, parseCount, evalCount, allowedCount, lastEval, skipped,
              rejected>>
counts == <<clientOptsCalls, keyCalls, fetchCalls, fetchedAt, sigAfterClose,
            evalCancelled, sawAttestation, unevaluated, reported, perImage>>
NoEval == [env |-> 0, in |-> "", out |-> ""]

InitExec ==
    /\ images \in SeqsUpTo(ImageRefs, MaxImages)
    /\ KeyRef \in {"", "cosign.pub"}
    /\ Sk \in BOOLEAN
    /\ experimental \in BOOLEAN
    /\ PredicateType \in PredicateTypes
    /\ Policies \in PolicySources
    /\ cancelled = FALSE
    /\ pc = "start"
    /\ i = 1
    /\ verified = <<>>
    /\ j = 1
    /\ result = "running"
    /\ pubKey = "none"
    /\ tokenHeld = FALSE
    /\ closeDeferred = FALSE
    /\ clientOptsCalls = 0
    /\ keyCalls = 0
    /\ acquireCount = 0
    /\ closeCount = 0
    /\ fetchCalls = 0
    /\ fetchedAt = <<>>
    /\ sigAfterClose = 0
    /\ sawAttestation = FALSE
    /\ unevaluated = 0
    /\ decodeCount = 0
    /\ parseCount = 0
    /\ evalCount = 0
    /\ allowedCount = 0
    /\ evalCancelled = 0
    /\ lastEval = NoEval
    /\ skipped = 0
    /\ rejected = 0
    /\ reported = <<>>

IdleExec ==
    /\ images = <<>> /\ KeyRef = "" /\ Sk = FALSE /\ experimental = FALSE
    /\ PredicateType = PredicateCustom /\ Policies = "data-is-foo.cue"
    /\ cancelled = FALSE /\ pc = "idle" /\ i = 1 /\ verified = <<>> /\ j = 1
    /\ result = "running" /\ pubKey = "none" /\ tokenHeld = FALSE
    /\ closeDeferred = FALSE /\ clientOptsCalls = 0 /\ keyCalls = 0
    /\ acquireCount = 0 /\ closeCount = 0 /\ fetchCalls = 0 /\ fetchedAt = <<>>
    /\ sigAfterClose = 0 /\ sawAttestation = FALSE /\ unevaluated = 0 /\ decodeCount = 0 /\ parseCount = 0
    /\ evalCount = 0 /\ allowedCount = 0 /\ evalCancelled = 0 /\ lastEval = NoEval
    /\ skipped = 0 /\ rejected = 0 /\ reported = <<>>

\* A return (or a panic) of Exec with value e: the deferred sk.Close() of line
\* 104 runs, once, if it was registered.
Return(e) ==
    /\ pc' = "done"
    /\ result' = e
    /\ closeCount' = IF closeDeferred THEN closeCount + 1 ELSE closeCount
    /\ tokenHeld' = IF closeDeferred THEN FALSE ELSE tokenHeld

\* Exec goes on to position p.
Goto(p) ==
    /\ pc' = p
    /\ UNCHANGED <<result, closeCount, tokenHeld>>

\* CheckArgs without the check of line 71.
CheckArgsNoKeyCheck ==
    /\ pc = "start"
    /\ IF Len(images) = 0 THEN Return("ErrHelp") ELSE Goto("clientOpts")
    /\ UNCHANGED <<regoVars, dsseVars, inputs, cancelled, i, verified, j, pubKey,
                   closeDeferred, acquireCount, counts>>

\* CheckArgs with the check of line 71 before that of line 67.
CheckArgsKeyFirst ==
    /\ pc = "start"
    /\ IF ~OneOf(KeyRef, Sk) /\ ~experimental THEN Return("KeyParseError")
       ELSE IF Len(images) = 0 THEN Return("ErrHelp")
       ELSE Goto("clientOpts")
    /\ UNCHANGED <<regoVars, dsseVars, inputs, cancelled, i, verified, j, pubKey, closeDeferred,
                   acquireCount, counts>>

\* Lines 67-73.
CheckArgs ==
    /\ pc = "start"
    /\ IF Len(images) = 0 THEN Return("ErrHelp")
       ELSE IF ~OneOf(KeyRef, Sk) /\ ~experimental THEN Return("KeyParseError")
       ELSE Goto("clientOpts")
    /\ UNCHANGED <<regoVars, dsseVars, inputs, cancelled, i, verified, j, pubKey, closeDeferred,
                   acquireCount, counts>>

\* Lines 75-78: c.ClientOpts(ctx) succeeds or fails.
ClientOpts ==
    /\ pc = "clientOpts"
    /\ clientOptsCalls' = clientOptsCalls + 1
    /\ \/ Goto("key")
       \/ Return("constructing client options")
    /\ UNCHANGED <<regoVars, dsseVars, inputs, cancelled, i, verified, j, pubKey, closeDeferred,
                   acquireCount, keyCalls, fetchCalls, fetchedAt, sigAfterClose,
                   evalCancelled, sawAttestation, unevaluated, reported, perImage>>

\* Lines 94-98: keyRef != "".
KeyFromRef ==
    /\ pc = "key"
    /\ KeyRef # ""
    /\ keyCalls' = keyCalls + 1
    /\ \/ Goto("loop") /\ pubKey' = "key"
       \/ Return("loading public key") /\ UNCHANGED pubKey
    /\ UNCHANGED <<regoVars, dsseVars, inputs, cancelled, i, verified, j, closeDeferred,
                   acquireCount, clientOptsCalls, fetchCalls, fetchedAt, sigAfterClose,
                   evalCancelled, sawAttestation, unevaluated, reported, perImage>>

\* OpenToken without the defer of line 104.
OpenTokenNoDefer ==
    /\ pc = "key"
    /\ KeyRef = ""
    /\ Sk
    /\ \/ /\ pc' = "tokenVerifier"
          /\ tokenHeld' = TRUE
          /\ acquireCount' = acquireCount + 1
          /\ UNCHANGED <<result, closeCount, closeDeferred>>
       \/ /\ Return("opening piv token")
          /\ UNCHANGED <<closeDeferred, acquireCount>>
    /\ UNCHANGED <<regoVars, dsseVars, inputs, cancelled, i, verified, j, pubKey, counts>>

\* Lines 99-104: pivkey.GetKeyWithSlot, and defer sk.Close() when it succeeds.
OpenToken ==
    /\ pc = "key"
    /\ KeyRef = ""
    /\ Sk
    /\ \/ /\ pc' = "tokenVerifier"
          /\ tokenHeld' = TRUE
          /\ closeDeferred' = TRUE
          /\ acquireCount' = acquireCount + 1
          /\ UNCHANGED <<result, closeCount>>
       \/ /\ Return("opening piv token")
          /\ UNCHANGED <<closeDeferred, acquireCount>>
    /\ UNCHANGED <<regoVars, dsseVars, inputs, cancelled, i, verified, j, pubKey, counts>>

\* TokenVerifier that closes the token as soon as it has the verifier.
TokenVerifierClosesEarly ==
    /\ pc = "tokenVerifier"
    /\ \/ /\ pc' = "loop" /\ pubKey' = "token"
          /\ tokenHeld' = FALSE /\ closeCount' = closeCount + 1
          /\ UNCHANGED result
       \/ Return("initializing piv token verifier") /\ UNCHANGED pubKey
    /\ UNCHANGED <<regoVars, dsseVars, inputs, cancelled, i, verified, j, closeDeferred,
                   acquireCount, counts>>

\* Lines 105-108: sk.Verifier().
TokenVerifier ==
    /\ pc = "tokenVerifier"
    /\ \/ Goto("loop") /\ pubKey' = "token"
       \/ Return("initializing piv token verifier") /\ UNCHANGED pubKey
    /\ UNCHANGED <<regoVars, dsseVars, inputs, cancelled, i, verified, j, closeDeferred,
                   acquireCount, counts>>

\* Lines 93-109 with neither a key reference nor a token: pubKey stays nil.
NoKey ==
    /\ pc = "key"
    /\ KeyRef = ""
    /\ ~Sk
    /\ Goto("loop")
    /\ UNCHANGED <<regoVars, dsseVars, inputs, cancelled, i, verified, j, pubKey, closeDeferred,
                   acquireCount, counts>>

\* Lines 115-119 and 194: the next imageRef, or the end of the list.
NextImage ==
    /\ pc = "loop"
    /\ IF i > Len(images) THEN Return("nil")
       ELSE IF ~ParseReferenceOK(images[i]) THEN Return("ParseReferenceError")
       ELSE Goto("fetch")
    /\ UNCHANGED <<regoVars, dsseVars, inputs, cancelled, i, verified, j, pubKey, closeDeferred,
                   acquireCount, counts>>

\* What every call of cosign.VerifyAttestations (line 121) adds to the record.
FetchCalled ==
    /\ pc = "fetch"
    /\ fetchCalls' = fetchCalls + 1
    /\ fetchedAt' = Append(fetchedAt, i)
    /\ UNCHANGED <<regoVars, dsseVars, inputs, cancelled, i, pubKey, closeDeferred, acquireCount,
                   clientOptsCalls, keyCalls, evalCancelled, unevaluated, reported>>

\* FetchFails that goes on to the next image instead of returning.
FetchFailsContinue ==
    /\ pc = "fetch"
    /\ ~cancelled
    /\ fetchCalls' = fetchCalls + 1
    /\ fetchedAt' = Append(fetchedAt, i)
    /\ i' = i + 1
    /\ Goto("loop")
    /\ UNCHANGED <<regoVars, dsseVars, inputs, cancelled, verified, j, pubKey,
                   closeDeferred, acquireCount, clientOptsCalls, keyCalls,
                   sigAfterClose, evalCancelled, sawAttestation, unevaluated,
                   reported, perImage>>

\* FetchFails that calls VerifyAttestations again for the same image.
FetchFailsRetry ==
    /\ FetchCalled
    /\ ~cancelled
    /\ Goto("fetch")
    /\ UNCHANGED <<verified, j, sigAfterClose, sawAttestation, perImage>>

\* Lines 121-124: VerifyAttestations returns a registry or transport error.
FetchFails ==
    /\ FetchCalled
    /\ ~cancelled
    /\ Return("FetchError")
    /\ UNCHANGED <<verified, j, sigAfterClose, sawAttestation, perImage>>

\* Lines 121-124: ctx is done, and VerifyAttestations returns ctx's error.
FetchCancelled ==
    /\ FetchCalled
    /\ cancelled
    /\ Return("context canceled")
    /\ UNCHANGED <<verified, j, sigAfterClose, sawAttestation, perImage>>

\* FetchOK that returns an error when no attestation verified.
FetchOKStrict ==
    /\ FetchCalled
    /\ ~cancelled
    /\ \E atts \in SeqsUpTo(Attestations(PredicateType), MaxAtts) :
          /\ verified' = VerifyAttestations(atts)
          /\ sigAfterClose' = sigAfterClose +
                (IF pubKey = "token" /\ ~tokenHeld THEN Len(atts) ELSE 0)
          /\ rejected' = Len(atts) - Len(VerifyAttestations(atts))
    /\ sawAttestation' = (sawAttestation \/ verified' # <<>>)
    /\ j' = 1
    /\ UNCHANGED <<decodeCount, parseCount, evalCount, allowedCount, lastEval, skipped>>
    /\ IF verified' = <<>> THEN Return("no matching attestations") ELSE Goto("env")

\* FetchOK that reports the image before the loop over verified.
FetchOKReportsFirst ==
    /\ pc = "fetch"
    /\ ~cancelled
    /\ fetchCalls' = fetchCalls + 1
    /\ fetchedAt' = Append(fetchedAt, i)
    /\ reported' = Append(reported, i)
    /\ \E atts \in SeqsUpTo(Attestations(PredicateType), MaxAtts) :
          /\ verified' = VerifyAttestations(atts)
          /\ sigAfterClose' = sigAfterClose +
                (IF pubKey = "token" /\ ~tokenHeld THEN Len(atts) ELSE 0)
          /\ rejected' = Len(atts) - Len(VerifyAttestations(atts))
    /\ sawAttestation' = (sawAttestation \/ verified' # <<>>)
    /\ j' = 1
    /\ Goto("env")
    /\ UNCHANGED <<regoVars, dsseVars, inputs, cancelled, i, pubKey, closeDeferred, acquireCount,
                   clientOptsCalls, keyCalls, evalCancelled, unevaluated,
                   decodeCount, parseCount, evalCount, allowedCount, lastEval, skipped>>

\* FetchOK that loops over every attestation fetched, verified or not.
FetchOKUnverified ==
    /\ FetchCalled
    /\ ~cancelled
    /\ \E atts \in SeqsUpTo(Attestations(PredicateType), MaxAtts) :
          /\ verified' = atts
          /\ sigAfterClose' = sigAfterClose +
                (IF pubKey = "token" /\ ~tokenHeld THEN Len(atts) ELSE 0)
          /\ rejected' = Len(atts) - Len(VerifyAttestations(atts))
    /\ sawAttestation' = (sawAttestation \/ verified' # <<>>)
    /\ j' = 1
    /\ UNCHANGED <<decodeCount, parseCount, evalCount, allowedCount, lastEval, skipped>>
    /\ Goto("env")

\* Lines 121-126: VerifyAttestations checks the image's attestations and
\* returns those that verified; the loop over them starts.
FetchOK ==
    /\ FetchCalled
    /\ ~cancelled
    /\ \E atts \in SeqsUpTo(Attestations(PredicateType), MaxAtts) :
          /\ verified' = VerifyAttestations(atts)
          /\ sigAfterClose' = sigAfterClose +
                (IF pubKey = "token" /\ ~tokenHeld THEN Len(atts) ELSE 0)
          /\ rejected' = Len(atts) - Len(VerifyAttestations(atts))
    /\ sawAttestation' = (sawAttestation \/ verified' # <<>>)
    /\ j' = 1
    /\ UNCHANGED <<decodeCount, parseCount, evalCount, allowedCount, lastEval, skipped>>
    /\ Goto("env")

\* Lines 126-186: one iteration of the loop over verified.
ProcessEnvelope ==
    /\ pc = "env"
    /\ j <= Len(verified)
    /\ LET o == Envelope(PredicateType, Policies, verified[j]) IN
          /\ decodeCount' = decodeCount + B2N(o.decoded)
          /\ parseCount' = parseCount + B2N(o.parsed)
          /\ evalCount' = evalCount + B2N(o.evaluated)
          /\ allowedCount' = allowedCount + B2N(o.evaluated /\ o.evalOut = "nil")
          /\ evalCancelled' = evalCancelled + B2N(o.evaluated /\ cancelled)
          /\ lastEval' = IF o.evaluated
                         THEN [env |-> j, in |-> o.evalIn, out |-> o.evalOut]
                         ELSE lastEval
          /\ skipped' = skipped + B2N(o.kind = "skip")
          /\ CASE o.kind = "error" -> Return(o.err) /\ UNCHANGED j
               [] o.kind = "panic" -> Return("panic") /\ UNCHANGED j
               [] OTHER -> Goto("env") /\ j' = j + 1
    /\ UNCHANGED <<regoVars, dsseVars, inputs, cancelled, i, verified, pubKey, closeDeferred,
                   acquireCount, clientOptsCalls, keyCalls, fetchCalls, fetchedAt,
                   sigAfterClose, sawAttestation, unevaluated, reported, rejected>>

Matching(t, atts) == {k \in 1..Len(atts) : TypeMatches(t, atts[k])}

\* Report with a loop over verified that stops one envelope early.
ReportBeforeLast ==
    /\ pc = "env"
    /\ j >= Len(verified)
    /\ reported' = Append(reported, i)
    /\ unevaluated' = unevaluated +
                         (Cardinality(Matching(PredicateType, verified)) - allowedCount)
    /\ i' = i + 1
    /\ verified' = <<>>
    /\ j' = 1
    /\ decodeCount' = 0 /\ parseCount' = 0 /\ evalCount' = 0 /\ allowedCount' = 0
    /\ lastEval' = NoEval /\ skipped' = 0 /\ rejected' = 0
    /\ Goto("loop")
    /\ UNCHANGED <<regoVars, dsseVars, inputs, cancelled, pubKey, closeDeferred,
                   acquireCount, clientOptsCalls, keyCalls, fetchCalls, fetchedAt,
                   sigAfterClose, evalCancelled, sawAttestation>>

\* Lines 189-191: the loop over verified is over; the image is reported.
Report ==
    /\ pc = "env"
    /\ j > Len(verified)
    /\ reported' = Append(reported, i)
    /\ unevaluated' = unevaluated +
                         (Cardinality(Matching(PredicateType, verified)) - allowedCount)
    /\ i' = i + 1
    /\ verified' = <<>>
    /\ j' = 1
    /\ decodeCount' = 0 /\ parseCount' = 0 /\ evalCount' = 0 /\ allowedCount' = 0
    /\ lastEval' = NoEval /\ skipped' = 0 /\ rejected' = 0
    /\ Goto("loop")
    /\ UNCHANGED <<regoVars, dsseVars, inputs, cancelled, pubKey, closeDeferred,
                   acquireCount, clientOptsCalls, keyCalls, fetchCalls, fetchedAt,
                   sigAfterClose, evalCancelled, sawAttestation>>

\* The caller cancels ctx, at any moment of the run.
Cancel ==
    /\ pc \notin {"done", "idle"}
    /\ ~cancelled
    /\ cancelled' = TRUE
    /\ UNCHANGED <<regoVars, dsseVars, inputs, pc, i, verified, j, result, pubKey, tokenHeld,
                   closeDeferred, acquireCount, closeCount, counts>>

Next ==
    \/ CheckArgs
    \/ ClientOpts
    \/ KeyFromRef
    \/ OpenToken
    \/ TokenVerifier
    \/ NoKey
    \/ NextImage
    \/ FetchFails
    \/ FetchCancelled
    \/ FetchOK
    \/ ProcessEnvelope
    \/ Report
    \/ Cancel

IdleRego ==
    /\ rpc = "idle" /\ entrypoints = "" /\ jsonBody = "" /\ query = ""
    /\ input = "" /\ rs = <<>> /\ rerr = ""

IdleDSSE ==
    /\ vpc = "idle" /\ vkey = "" /\ vmsg = "" /\ vsigA = "" /\ vsigB = ""
    /\ vopts = "" /\ voutA = "" /\ voutB = "" /\ wrappedArgs = <<>>

Init == InitExec /\ IdleRego /\ IdleDSSE
Spec == Init /\ [][Next]_vars

(***************************************************************************)
(* rego.ValidateJSON(jsonBody, entrypoints).                               *)
(*                                                                         *)
(* A JSON integer is written as its binary digits, most significant first. *)
(* The policy sources are named by what they hold; Target is the integer   *)
(* their rules compare input.a with.                                       *)
(***************************************************************************)
Ones(n) == [k \in 1..n |-> 1]
Zeros(n) == [k \in 1..n |-> 0]

\* 9223372036854775807 = 2^63 - 1, and 9007199254740993 = 2^53 + 1.
MaxInt64 == Ones(63)
Pow53Plus1 == <<1>> \o Zeros(52) \o <<1>>
Target == MaxInt64

Body(valid, a) == [valid |-> valid, a |-> a]
JSONBodies ==
    { Body(FALSE, <<>>), Body(TRUE, <<1>>), Body(TRUE, <<1, 1, 1>>),
      Body(TRUE, <<1, 0, 1, 0, 1, 0>>), Body(TRUE, Pow53Plus1), Body(TRUE, MaxInt64) }

Entrypoints ==
    { "missing.rego",        \* cannot be read
      "syntax.rego",         \* does not compile
      "allow-eq.rego",       \* allow { input.a == Target }
      "default-false.rego",  \* default allow = false; allow { input.a == Target }
      "allow-string.rego",   \* allow = "true"
      "conflict.rego" }      \* allow = true and allow = false, both if input.a == Target

\* rego.New(...).PrepareForEval(ctx): the error of loading and compiling.
PrepareForEval(e) ==
    CASE e = "missing.rego" -> "load error"
      [] e = "syntax.rego" -> "compile error"
      [] OTHER -> "nil"

\* Decode without UseNumber: a number becomes a float64, the nearest value
\* with 53 significant bits (ties to even).
DecodeFloat64(body) ==
    LET Inc(b) ==
            IF \A k \in 1..Len(b) : b[k] = 1 THEN <<1>> \o Zeros(Len(b))
            ELSE LET q == CHOOSE k \in 1..Len(b) :
                              b[k] = 0 /\ \A m \in (k + 1)..Len(b) : b[m] = 1
                 IN  SubSeq(b, 1, q - 1) \o <<1>> \o Zeros(Len(b) - q)
        Float64(b) ==
            IF Len(b) <= 53 THEN b
            ELSE LET top == SubSeq(b, 1, 53)
                     rest == SubSeq(b, 54, Len(b))
                     sticky == \E k \in 2..Len(rest) : rest[k] = 1
                     up == rest[1] = 1 /\ (sticky \/ top[53] = 1)
                 IN  (IF up THEN Inc(top) ELSE top) \o Zeros(Len(rest))
    IN  IF body.valid THEN [err |-> "nil", input |-> [a |-> Float64(body.a)]]
        ELSE [err |-> "decode error", input |-> [a |-> <<>>]]

\* dec.UseNumber(); dec.Decode(&input): a number is kept as the json.Number
\* holding its literal.
Decode(body) ==
    IF body.valid THEN [err |-> "nil", input |-> [a |-> body.a]]
    ELSE [err |-> "decode error", input |-> [a |-> <<>>]]

Value(type, val) == [type |-> type, val |-> val]
Result(v) == [expressions |-> <<v>>, bindings |-> 0]

\* query.Eval(ctx, rego.EvalInput(input)) of the query data.signature.allow.
Eval(e, in) ==
    CASE e = "allow-eq.rego" ->
            [err |-> "nil",
             rs |-> IF in.a = Target THEN <<Result(Value("bool", "true"))>> ELSE <<>>]
      [] e = "default-false.rego" ->
            [err |-> "nil",
             rs |-> IF in.a = Target THEN <<Result(Value("bool", "true"))>>
                    ELSE <<Result(Value("bool", "false"))>>]
      [] e = "allow-string.rego" ->
            [err |-> "nil", rs |-> <<Result(Value("string", "true"))>>]
      [] OTHER ->
            IF in.a = Target THEN [err |-> "eval_conflict_error", rs |-> <<>>]
            ELSE [err |-> "nil", rs |-> <<>>]

\* rs.Allowed(): one result, of one expression, with no bindings, whose value
\* is the boolean true.
Allowed(r) ==
    /\ Len(r) = 1
    /\ r[1].bindings = 0
    /\ Len(r[1].expressions) = 1
    /\ r[1].expressions[1] = Value("bool", "true")

RegoDenied == "rego validation failed"

InitRego ==
    /\ rpc = "prepare"
    /\ entrypoints \in Entrypoints
    /\ jsonBody \in JSONBodies
    /\ query = ""
    /\ input = [a |-> <<>>]
    /\ rs = <<>>
    /\ rerr = "running"

\* RegoPrepare that reports a source failure as a failed validation.
RegoPrepareGeneric ==
    /\ rpc = "prepare"
    /\ IF PrepareForEval(entrypoints) # "nil"
       THEN rpc' = "done" /\ rerr' = RegoDenied /\ UNCHANGED query
       ELSE rpc' = "decode" /\ query' = "data.signature.allow" /\ UNCHANGED rerr
    /\ UNCHANGED <<execVars, dsseVars, entrypoints, jsonBody, input, rs>>

\* Lines 14-21.
RegoPrepare ==
    /\ rpc = "prepare"
    /\ LET err == PrepareForEval(entrypoints) IN
          IF err # "nil"
          THEN rpc' = "done" /\ rerr' = err /\ UNCHANGED query
          ELSE rpc' = "decode" /\ query' = "data.signature.allow" /\ UNCHANGED rerr
    /\ UNCHANGED <<execVars, dsseVars, entrypoints, jsonBody, input, rs>>

\* Lines 23-28.
RegoDecode ==
    /\ rpc = "decode"
    /\ LET d == Decode(jsonBody) IN
          IF d.err # "nil"
          THEN rpc' = "done" /\ rerr' = d.err /\ UNCHANGED input
          ELSE rpc' = "eval" /\ input' = d.input /\ UNCHANGED rerr
    /\ UNCHANGED <<execVars, dsseVars, entrypoints, jsonBody, query, rs>>

\* Lines 30-33.
RegoEval ==
    /\ rpc = "eval"
    /\ LET r == Eval(entrypoints, input) IN
          IF r.err # "nil"
          THEN rpc' = "done" /\ rerr' = r.err /\ UNCHANGED rs
          ELSE rpc' = "allowed" /\ rs' = r.rs /\ UNCHANGED rerr
    /\ UNCHANGED <<execVars, dsseVars, entrypoints, jsonBody, query, input>>

\* RegoAllowed that takes an empty result set for a pass.
RegoAllowedEmptyPasses ==
    /\ rpc = "allowed"
    /\ rpc' = "done"
    /\ rerr' = IF rs = <<>> \/ Allowed(rs) THEN "nil" ELSE RegoDenied
    /\ UNCHANGED <<execVars, dsseVars, entrypoints, jsonBody, query, input, rs>>

\* Lines 35-38.
RegoAllowed ==
    /\ rpc = "allowed"
    /\ rpc' = "done"
    /\ rerr' = IF Allowed(rs) THEN "nil" ELSE RegoDenied
    /\ UNCHANGED <<execVars, dsseVars, entrypoints, jsonBody, query, input, rs>>

NextRego ==
    \/ RegoPrepare
    \/ RegoDecode
    \/ RegoEval
    \/ RegoAllowed

InitRegoSpec == IdleExec /\ InitRego /\ IdleDSSE
SpecRego == InitRegoSpec /\ [][NextRego]_vars

(***************************************************************************)
(* reverseDSSEVerifier.VerifySignature(s, m, opts...).                     *)
(*                                                                         *)
(* Two calls, A and B, on one verifier with one message stream and one     *)
(* option list, and with signature streams vsigA and vsigB.                *)
(***************************************************************************)
Keys == {"k1", "k2"}
Streams == {"dsse envelope signed by k1", "dsse envelope signed by k2",
            "not an envelope", "empty"}
NilReader == "nil"
VerifyOptions == {"no options", "WithContext"}

Signer(stream) ==
    CASE stream = "dsse envelope signed by k1" -> "k1"
      [] stream = "dsse envelope signed by k2" -> "k2"
      [] OTHER -> "nobody"

\* The verifier dsse.WrapVerifier(pubKey) of lines 111-113: it reads the
\* envelope from its first (signature) argument and checks it against pubKey.
WrappedVerifySignature(key, sig, msg, opts) ==
    IF Signer(sig) = key THEN "nil" ELSE "invalid signature"

\* The arguments in the order the upstream DSSE verifier takes them.
ForwardArgs(s, m) == <<s, m>>

\* Line 62: the arguments the adapter hands to the wrapped verifier.
ReverseArgs(s, m) == <<m, NilReader>>

\* Lines 61-63.
ReverseVerifySignature(key, s, m, opts) ==
    LET a == ReverseArgs(s, m) IN WrappedVerifySignature(key, a[1], a[2], opts)

InitDSSE ==
    /\ vpc = "callA"
    /\ vkey \in Keys
    /\ vmsg \in Streams
    /\ vsigA \in Streams
    /\ vsigB \in Streams
    /\ vopts \in VerifyOptions
    /\ voutA = "none"
    /\ voutB = "none"
    /\ wrappedArgs = <<>>

CallA ==
    /\ vpc = "callA"
    /\ voutA' = ReverseVerifySignature(vkey, vsigA, vmsg, vopts)
    /\ wrappedArgs' = Append(wrappedArgs, ReverseArgs(vsigA, vmsg))
    /\ vpc' = "callB"
    /\ UNCHANGED <<execVars, regoVars, vkey, vmsg, vsigA, vsigB, vopts, voutB>>

CallB ==
    /\ vpc = "callB"
    /\ voutB' = ReverseVerifySignature(vkey, vsigB, vmsg, vopts)
    /\ wrappedArgs' = Append(wrappedArgs, ReverseArgs(vsigB, vmsg))
    /\ vpc' = "done"
    /\ UNCHANGED <<execVars, regoVars, vkey, vmsg, vsigA, vsigB, vopts, voutA>>

NextDSSE ==
    \/ CallA
    \/ CallB

InitDSSESpec == IdleExec /\ IdleRego /\ InitDSSE
SpecDSSE == InitDSSESpec /\ [][NextDSSE]_vars

(***************************************************************************)
(* Properties.                                                             *)
(***************************************************************************)
Keyless == ~OneOf(KeyRef, Sk)
NoCallsMade ==
    fetchCalls = 0 /\ keyCalls = 0 /\ clientOptsCalls = 0 /\ acquireCount = 0
PolicyErrors == {"PolicySourceError", "PolicyDenied"}
EnvelopeErrors == {"PayloadError", "EnvelopeJSONError", "Base64Error",
                   "StatementError"} \cup PolicyErrors
\* The type-matching envelopes among the first n of the current image.
MatchingUpTo(n) == {k \in Matching(PredicateType, verified) : k <= n}

\* C1 as stated: whenever Exec has run in keyless mode with the experimental
\* flag unset, it has returned the configuration error (KeyParseError) and has
\* made no fetch, key resolution or client construction call.
C1_Original ==
    (pc = "done" /\ Keyless /\ ~experimental) =>
        (result = "KeyParseError" /\ NoCallsMade)

\* C1 amended: in keyless mode with the experimental flag unset Exec never
\* gets past its argument checks, so it makes no fetch, key resolution, token
\* or client construction call; it returns KeyParseError when the image list is
\* not empty and the usage error flag.ErrHelp when it is empty.
C1_Amended ==
    (Keyless /\ ~experimental) =>
        /\ NoCallsMade
        /\ pc \in {"start", "done"}
        /\ pc = "done" =>
              result = (IF images = <<>> THEN "ErrHelp" ELSE "KeyParseError")

C1_Witness ==
    /\ pc = "done" /\ Keyless /\ ~experimental /\ Len(images) = 2
    /\ result = "KeyParseError" /\ fetchCalls = 0

\* C2, first half: a policy evaluation that fails ends the run at that
\* envelope, and its error is what Exec returns.
C2_Abort ==
    lastEval.out \in PolicyErrors =>
        /\ pc = "done"
        /\ result = lastEval.out
        /\ j = lastEval.env
        /\ evalCount = Cardinality(MatchingUpTo(j))
        /\ allowedCount = evalCount - 1

\* C2 as stated: C2_Abort, and Exec returns success only if every
\* type-matching verified envelope of every processed image was evaluated and
\* allowed.
C2_Original == C2_Abort /\ (result = "nil" => unevaluated = 0)

\* C2 amended: C2_Abort, and when c.PredicateType is one of the four tags the
\* switch knows, Exec returns success only if every type-matching verified
\* envelope of every processed image was evaluated and allowed; for any other
\* c.PredicateType no envelope is ever evaluated (type-matching ones are
\* decoded and passed over).
C2_Amended ==
    /\ C2_Abort
    /\ HasCase(PredicateType) =>
          /\ result = "nil" => unevaluated = 0
          /\ pc = "env" => allowedCount = Cardinality(MatchingUpTo(j - 1))
    /\ ~HasCase(PredicateType) => evalCount = 0 /\ lastEval = NoEval

C2_Witness ==
    /\ pc = "done" /\ result = "PolicyDenied" /\ lastEval.env = j
    /\ j = 1 /\ Len(verified) = 2 /\ TypeMatches(PredicateType, verified[2])
    /\ evalCount = 1

\* C3 as stated: a fetch of an image that is not the last of the list never
\* ends the run (the run goes on to the next image when it fails).
C3_Original == [][(pc = "fetch" /\ i < Len(images)) => pc' # "done"]_vars

\* C3 amended: a fetch error aborts the whole run: Exec returns it at once, so
\* the failed image is the last one fetched and no later image is fetched or
\* reported. Every image fetched is being processed, was reported, or ended
\* the run.
C3_Amended ==
    /\ result = "FetchError" =>
          pc = "done" /\ fetchCalls = i /\ Len(reported) = i - 1
    /\ fetchedAt = [k \in 1..fetchCalls |-> k]
    /\ fetchCalls <= Len(reported) + 1
    /\ fetchCalls = Len(reported) + 1 => pc \in {"env", "done"}

C3_Witness ==
    /\ pc = "done" /\ result = "FetchError" /\ i = 1 /\ Len(images) = 2
    /\ ParseReferenceOK(images[2]) /\ fetchCalls = 1

\* C4: an envelope whose payloadType is not the one mapped from the requested
\* predicate type is passed over: base64 decode, statement parse and policy
\* evaluation happen for type-matching envelopes only, the loop goes on to the
\* next envelope, and an error that ends the loop is never that of a
\* well-formed envelope of another type.
C4_SkipOtherTypes ==
    /\ decodeCount <= Cardinality(MatchingUpTo(j))
    /\ parseCount <= decodeCount
    /\ evalCount <= parseCount
    /\ pc = "env" =>
          /\ result = "running"
          /\ skipped >= Cardinality((1..(j - 1)) \ MatchingUpTo(j - 1))
    /\ result \in {"Base64Error", "StatementError", "panic"} \cup PolicyErrors =>
          TypeMatches(PredicateType, verified[j])
    /\ result = "PayloadError" => ~verified[j].payloadOK
    /\ result = "EnvelopeJSONError" => ~verified[j].isJSON

C4_Witness ==
    /\ pc = "env" /\ j = 2 /\ Len(verified) = 2
    /\ ~TypeMatches(PredicateType, verified[1])
    /\ verified[1].payloadIsString /\ verified[1].b64OK /\ verified[1].stmtOK
    /\ decodeCount = 0 /\ evalCount = 0 /\ skipped = 1

\* The one result set that marks the input allowed.
AllowedResultSet == <<[expressions |-> <<[type |-> "bool", val |-> "true"]>>, bindings |-> 0]>>

\* C5: rego.ValidateJSON returns nil only when the policy compiled, the input
\* decoded, the query evaluated without error and the result set is the one
\* that marks the input allowed; in every other case, an empty result set
\* included, it returns a non-nil error.
C5_NilOnlyIfAllowed ==
    /\ rerr = "nil" =>
          /\ rpc = "done"
          /\ query = "data.signature.allow"
          /\ jsonBody.valid
          /\ rs = AllowedResultSet
    /\ (rpc = "done" /\ rs # AllowedResultSet) => rerr \notin {"nil", "running"}
    /\ (rpc = "done" /\ rs = AllowedResultSet) => rerr = "nil"

C5_Witness ==
    /\ rpc = "done" /\ entrypoints = "allow-eq.rego" /\ jsonBody.valid
    /\ query = "data.signature.allow" /\ rs = <<>> /\ rerr = RegoDenied

\* C6: two calls of reverseDSSEVerifier.VerifySignature with the same message
\* stream and options return the same outcome whatever their signature
\* streams hold, and that outcome is the wrapped verifier's on the message
\* stream alone (with a nil second argument).
C6_SignatureStreamIgnored ==
    vpc = "done" =>
        /\ voutA = voutB
        /\ voutA = WrappedVerifySignature(vkey, vmsg, NilReader, vopts)
        /\ wrappedArgs = <<<<vmsg, NilReader>>, <<vmsg, NilReader>>>>

C6_Witness ==
    /\ vpc = "done" /\ Signer(vsigA) = vkey /\ Signer(vsigB) # vkey
    /\ Signer(vmsg) = vkey /\ voutA = "nil" /\ voutB = "nil"

\* C7: once the token handle is acquired, sk.Close is called exactly once by
\* the time Exec has returned, on every path, and not before.
C7_CloseExactlyOnce ==
    /\ acquireCount <= 1
    /\ closeCount <= acquireCount
    /\ (acquireCount = 1 /\ pc # "done") => (closeCount = 0 /\ tokenHeld)
    /\ (acquireCount = 1 /\ pc = "done") => (closeCount = 1 /\ ~tokenHeld)
    /\ acquireCount = 0 => ~tokenHeld

C7_Witness ==
    /\ pc = "done" /\ result = "initializing piv token verifier"
    /\ acquireCount = 1 /\ closeCount = 1 /\ ~tokenHeld

\* C8: an image for which VerifyAttestations returns an empty list and no
\* error gets no decode, no statement parse and no policy evaluation and
\* raises no error; Exec reports it and goes on to the next image, and a run
\* whose images all have no attestations returns nil.
C8_ZeroAttestations ==
    /\ (pc = "env" /\ verified = <<>>) =>
          /\ result = "running"
          /\ j = 1
          /\ decodeCount = 0 /\ parseCount = 0 /\ evalCount = 0
    /\ ~sawAttestation =>
          /\ result \notin (EnvelopeErrors \cup {"panic"})
          /\ unevaluated = 0
          /\ pc \in {"loop", "fetch"} => Len(reported) = fetchCalls
    /\ (pc = "done" /\ ~sawAttestation /\ images # <<>>
            /\ fetchCalls = Len(images)
            /\ result \notin {"FetchError", "context canceled"}) =>
          (result = "nil" /\ Len(reported) = Len(images))

C8_Witness ==
    /\ pc = "done" /\ result = "nil" /\ ~sawAttestation
    /\ Len(images) = 2 /\ fetchCalls = 2 /\ reported = <<1, 2>>

C10_Claim ==
    /\ evalCancelled = 0
    /\ (cancelled /\ pc = "done" /\ lastEval.out \in PolicyErrors) =>
          result = "context canceled"

\* The predicateType values of a statement that belong to the four cases.
RecognizedTags ==
    {PredicateTypeMap(t) : t \in {PredicateCustom, PredicateLink, PredicateSLSA,
                                  PredicateSPDX}}

\* C11 as stated: a verified, type-matching envelope whose statement carries a
\* predicateType outside the four recognized ones is never handed to policy
\* evaluation and never ends the run: Exec goes on to the next envelope.
C11_Original ==
    /\ lastEval.env > 0 => verified[lastEval.env].tag \in RecognizedTags
    /\ (pc = "done" /\ j <= Len(verified) /\ TypeMatches(PredicateType, verified[j])
           /\ verified[j].payloadIsString /\ verified[j].b64OK /\ verified[j].stmtOK
           /\ verified[j].tag \notin RecognizedTags)
          => result \notin EnvelopeErrors

\* C11 amended: the switch looks at the requested c.PredicateType and never at
\* the predicateType of the statement.  With c.PredicateType outside the four
\* cases no statement is parsed, no policy is evaluated and no statement or
\* policy error is returned; every envelope gone through without an error was
\* passed over.  With c.PredicateType one of the four, every type-matching
\* envelope gone through was evaluated, whatever predicateType its statement
\* carries.
C11_Amended ==
    /\ ~HasCase(PredicateType) =>
          /\ parseCount = 0 /\ evalCount = 0 /\ lastEval = NoEval
          /\ result \notin ({"StatementError"} \cup PolicyErrors)
          /\ pc = "env" => skipped = j - 1
    /\ (HasCase(PredicateType) /\ pc = "env") =>
          /\ evalCount = Cardinality(MatchingUpTo(j - 1))
          /\ allowedCount = evalCount
          /\ skipped = (j - 1) - evalCount

\* C11 witness: with a requested type of the four, a type-matching envelope
\* whose statement carries an unknown predicateType has been evaluated and
\* allowed, and Exec is at the next envelope.
C11_Witness ==
    /\ pc = "env" /\ j = 2 /\ Len(verified) = 2
    /\ HasCase(PredicateType)
    /\ TypeMatches(PredicateType, verified[1])
    /\ verified[1].tag \notin RecognizedTags
    /\ evalCount = 1 /\ allowedCount = 1
    /\ lastEval = [env |-> 1, in |-> Marshal(verified[1].predicate), out |-> "nil"]

\* A payload that is no string, no base64, or no statement once decoded.
Malformed(vp) == ~vp.payloadIsString \/ ~vp.b64OK \/ ~vp.stmtOK
DecodeErrors == {"Base64Error", "StatementError"}

\* C12 as stated: a verified, type-matching envelope with a malformed payload
\* makes Exec return a decode error: Exec never goes past such an envelope,
\* never evaluates it, and the run ends in nothing but a returned decode error.
C12_Claim ==
    /\ result # "panic"
    /\ \A k \in 1..Len(verified) :
          (k < j /\ TypeMatches(PredicateType, verified[k])) => ~Malformed(verified[k])
    /\ (lastEval.env > 0) => ~Malformed(verified[lastEval.env])
    /\ (pc = "done" /\ j <= Len(verified) /\ verified[j].payloadOK /\ verified[j].isJSON
           /\ TypeMatches(PredicateType, verified[j]) /\ Malformed(verified[j]))
          => result \in DecodeErrors

C14_PredicateOnly ==
    lastEval.env > 0 =>
        /\ lastEval.in = Marshal(verified[lastEval.env].predicate)
        /\ lastEval.out = CueValidateJSON(Marshal(verified[lastEval.env].predicate), Policies)
        /\ \A k \in 1..Len(verified) :
              (verified[k].stmtOK /\ verified[k].predicate = verified[lastEval.env].predicate)
                  => lastEval.in = Marshal(verified[k].predicate)

\* C14 witness: two statements of one image with the same Predicate, another
\* subject and another predicateType were both evaluated and both allowed.
C14_Witness ==
    /\ pc = "env" /\ j = 3 /\ Len(verified) = 2
    /\ verified[1].predicate = verified[2].predicate
    /\ verified[1].subject # verified[2].subject
    /\ verified[1].tag # verified[2].tag
    /\ evalCount = 2 /\ allowedCount = 2
    /\ lastEval = [env |-> 2, in |-> "{\"Data\":\"foo\"}", out |-> "nil"]

\* C15: the decode step of the query-based evaluator keeps a JSON integer
\* exactly: for the body {"a": n}, with n up to 9223372036854775807, the value
\* the query is evaluated on is n, so that a policy comparing input.a with
\* 9223372036854775807 allows that body and no other.
C15_IntegersExact ==
    /\ (rpc \in {"eval", "allowed"} \/ (rpc = "done" /\ input # [a |-> <<>>]))
          => (jsonBody.valid /\ input.a = jsonBody.a)
    /\ (rpc = "done" /\ jsonBody.valid /\ entrypoints = "allow-eq.rego")
          => (rerr = "nil" <=> jsonBody.a = MaxInt64)

\* C15 witness: the body {"a": 9223372036854775807} was decoded, the query saw
\* that very number and allowed it.
C15_Witness ==
    /\ rpc = "done" /\ jsonBody = Body(TRUE, MaxInt64)
    /\ input.a = MaxInt64 /\ Len(input.a) = 63
    /\ entrypoints = "allow-eq.rego" /\ rerr = "nil"

\* C16: images are processed one after the other in the order of the list, and
\* the envelopes of an image in the order returned.  The k-th fetch is that of
\* image k and starts only when every image before it is done; Exec moves to
\* the next image only when every verified envelope of the current one has
\* been skipped or evaluated and allowed; envelopes are taken one at a time,
\* in order, and the one evaluated is the current one.
C16_Sequential ==
    [][ /\ (fetchCalls' # fetchCalls) =>
              /\ pc = "fetch" /\ verified = <<>>
              /\ i = fetchCalls + 1 /\ Len(reported) = i - 1
              /\ fetchCalls' = fetchCalls + 1 /\ fetchedAt' = Append(fetchedAt, i)
        /\ (i' # i) =>
              /\ pc = "env" /\ i' = i + 1
              /\ j = Len(verified) + 1
              /\ skipped + allowedCount = Len(verified)
        /\ (j' # j /\ i' = i) =>
              /\ pc = "env" /\ j <= Len(verified) /\ j' = j + 1
              /\ skipped' + allowedCount' = j
        /\ (lastEval' # lastEval /\ i' = i) => lastEval'.env = j
      ]_vars

\* C16 witness: the second image has been fetched after the first was
\* reported, and the first of its two envelopes has been handled.
C16_Witness ==
    /\ pc = "env" /\ i = 2 /\ j = 2 /\ Len(verified) = 2
    /\ reported = <<1>> /\ fetchedAt = <<1, 2>>
    /\ skipped + allowedCount = 1

\* C17: nothing is retried.  VerifyAttestations is called at most once for an
\* entry of the image list, the policy is evaluated at most once for a
\* verified envelope, and the first failure of either ends Exec with that
\* error: no call follows it.
C17_NoRetry ==
    /\ fetchCalls <= Len(images) /\ Len(fetchedAt) = fetchCalls
    /\ \A a, b \in 1..Len(fetchedAt) : fetchedAt[a] = fetchedAt[b] => a = b
    /\ evalCount <= Cardinality(MatchingUpTo(j)) /\ evalCount <= Len(verified)
    /\ lastEval.env > 0 => evalCount = Cardinality(MatchingUpTo(lastEval.env))
    /\ result \in {"FetchError", "context canceled"} =>
          /\ pc = "done" /\ fetchCalls = i /\ fetchedAt[fetchCalls] = i
          /\ verified = <<>> /\ evalCount = 0
    /\ result \in PolicyErrors =>
          /\ pc = "done" /\ fetchCalls = i
          /\ lastEval = [env |-> j, in |-> Marshal(verified[j].predicate), out |-> result]
          /\ evalCount = Cardinality(MatchingUpTo(j))

\* C17 witness: the fetch of the second image failed; it was called once for
\* each image and Exec returned the error.
C17_Witness ==
    /\ pc = "done" /\ result = "FetchError"
    /\ Len(images) = 2 /\ fetchCalls = 2 /\ fetchedAt = <<1, 2>>
    /\ reported = <<1>>

\* C18: an image is reported only when every verified envelope of it has been
\* skipped or evaluated and allowed; the image at which Exec returns an error
\* is not reported; what was reported before stays reported, and Exec returns
\* nil only with every image of the list reported.
C18_ReportAfterAll ==
    [][ /\ (reported' # reported) =>
              /\ pc = "env" /\ result = "running"
              /\ j = Len(verified) + 1
              /\ skipped + allowedCount = Len(verified)
              /\ reported' = Append(reported, i)
        /\ (pc # "done" /\ pc' = "done" /\ result' # "nil") =>
              /\ reported' = reported
              /\ \A k \in 1..Len(reported) : reported[k] < i
              /\ Len(reported) < Len(images) \/ images = <<>>
        /\ (pc # "done" /\ pc' = "done" /\ result' = "nil") =>
              /\ reported' = reported
              /\ reported = [k \in 1..Len(images) |-> k]
      ]_vars

\* C18 witness: the first image was reported, the policy denied an envelope
\* of the second, and Exec returned that error with the first still reported.
C18_Witness ==
    /\ pc = "done" /\ result = "PolicyDenied"
    /\ i = 2 /\ reported = <<1>> /\ fetchedAt = <<1, 2>>

\* C19: with the hardware token, no signature is verified after the token
\* handle is released: from the moment its verifier is in use until Exec
\* returns the handle is held and sk.Close has not been called, and it is
\* released only with the return of Exec.
C19_TokenHeldWhileVerifying ==
    /\ sigAfterClose = 0
    /\ (pubKey = "token" /\ pc # "done") => (tokenHeld /\ closeCount = 0)
    /\ (pubKey = "token" /\ ~tokenHeld) => pc = "done"
    /\ (pc = "env" /\ Sk /\ KeyRef = "") => (pubKey = "token" /\ tokenHeld)
    /\ closeCount > 0 => pc = "done"

\* C19 witness: with the token, the attestations of a second image have had
\* their signatures checked, and the handle is still held.
C19_Witness ==
    /\ pc = "env" /\ pubKey = "token" /\ tokenHeld /\ closeCount = 0
    /\ i = 2 /\ fetchCalls = 2 /\ rejected = 1 /\ Len(verified) = 1

\* C20: with an empty image list Exec returns the usage error (ErrHelp) in
\* its first step, whatever the key reference, the token flag and the
\* experimental flag: no client options, no key, no token and no fetch call is
\* made, and nothing is reported.
C20_EmptyListFirst ==
    images = <<>> =>
        /\ pc \in {"start", "done"}
        /\ pc = "done" => result = "ErrHelp"
        /\ pc = "start" => result = "running"
        /\ NoCallsMade
        /\ pubKey = "none" /\ ~tokenHeld /\ closeCount = 0
        /\ reported = <<>>

\* C20 witness: Exec has returned ErrHelp for an empty list in keyless mode
\* with the experimental flag unset.
C20_Witness ==
    /\ pc = "done" /\ images = <<>> /\ result = "ErrHelp"
    /\ KeyRef = "" /\ ~Sk /\ ~experimental
    /\ NoCallsMade

====
